---- MODULE Spec2Model ----
(***************************************************************************)
(* bonsai-bot: the SHT20 sensor driver (src/src/sht20.rs) and the select   *)
(* loop with its climate, fan and pump services (src/src/main.rs).         *)
(*                                                                         *)
(* Time is counted in milliseconds; the wall clock (Utc::now) and the      *)
(* monotonic clock (Instant::now) advance together.  Sensor values (f32)   *)
(* are kept as integers: humidities in units of 1/Scale, Scale = 100 *     *)
(* 65536 (the humidity formula is exact in f32 for every 16-bit sample),   *)
(* temperatures in units of 1/TempScale, TempScale = 2^19 (every f32 the   *)
(* temperature formula yields is a multiple of 2^-19; its two roundings    *)
(* are computed as f32 arithmetic does).  Database statements and writes   *)
(* to the output lines take no time; the only waits are the sensor's       *)
(* settling delay, the two pulses and the timers.                          *)
(***************************************************************************)
EXTENDS Integers, Sequences, FiniteSets, TLC

\* ------------------------------------------------------------------------
\* Program constants
\* ------------------------------------------------------------------------
FAN_PERIODIC_MINS == 3
FAN_DURATION_SECS == 30
CLIMATE_PERIODIC_MINS == 5
PUMP_PERIODIC_HRS == 24
PUMP_DURATION_SECS == 60
RH_LO_THRESH == 70
RH_HI_THRESH == 80
RH_MEAS_NO_HOLD_MASTER == 245
TEMP_MEAS_NO_HOLD_MASTER == 243
LSB_STATUS_MASK == 3
EXPECTED_BYTES == 2
SETTLE_MILLIS == 85

\* one percent in the fixed-point unit of humidity values
Scale == 100 * 65536

ClimatePeriod == 60 * CLIMATE_PERIODIC_MINS * 1000
FanPeriod == 60 * FAN_PERIODIC_MINS * 1000
PumpPeriod == 60 * 60 * PUMP_PERIODIC_HRS * 1000

\* ------------------------------------------------------------------------
\* Bounds of the model
\* ------------------------------------------------------------------------
\* the loop of a process that is never killed is followed until this time
\* (ms after the first process start)
Horizon == 900000
\* with crashes the loop is followed until this time
CrashHorizon == 310000
\* number of crash/restart pairs followed
MaxRestarts == 1
\* a killed process is started again at the next multiple of this time (ms)
RestartGrid == 100000
\* the day-long run is followed until this long after one pump period (ms)
DayMargin == 200000

\* Option<T> as a sequence of length 0 or 1
None == <<>>
Some(x) == <<x>>

Min(a, b) == IF a <= b THEN a ELSE b
Max(a, b) == IF a >= b THEN a ELSE b

\* ------------------------------------------------------------------------
\* src/src/sht20.rs
\* ------------------------------------------------------------------------
\* Result<T, ShtError>; val is 0 for Ok(()) and for Err
Ok(v) == [ok |-> TRUE, val |-> v, err |-> "none"]
Err(e) == [ok |-> FALSE, val |-> 0, err |-> e]

\* SHT20::new: the fields a fresh driver holds
SHT20_new == [measurement_type |-> "None", in_progress |-> FALSE]

\* -6.0 + 125.0 * raw_humidity as f32 / 65536.0, in units of 1/Scale (every
\* step of it is exact in f32)
convert_humidity(raw_humidity) == 100 * (125 * raw_humidity - 6 * 65536)

\* f32 temperatures are multiples of 2^-19 on the whole range of
\* convert_temp; they are held as integers in units of 1/TempScale
TempScale == 8 * 65536

\* round-to-nearest, ties-to-even, of q + rem / unit to an integer, given
\* twice_rem = 2 * rem
RoundEven(q, twice_rem, unit) ==
    IF twice_rem > unit \/ (twice_rem = unit /\ q % 2 = 1) THEN q + 1 ELSE q

\* the spacing of f32 values, in units of 2^-15, around a value whose
\* integer part is int: 2^-15 below 2^9, doubling with each power of two,
\* 1 from 2^23 on
RECURSIVE F32Spacing(_, _, _)
F32Spacing(int, bound, spacing) ==
    IF int >= bound /\ spacing < 32768
    THEN F32Spacing(int, 2 * bound, 2 * spacing)
    ELSE spacing

\* the f32 product 175.72 * raw_temp as f32, as int + frac / 2^15. The f32
\* nearest to 175.72 is 11515986 / 2^16 = 175 + 23593 / 2^15.
F32Product(raw_temp) ==
    LET q == 23593 * raw_temp
        int == 175 * raw_temp + (q \div 32768)
        frac == q % 32768
        u == F32Spacing(int, 512, 1)
    IN  IF u = 32768
        THEN [int |-> RoundEven(int, 2 * frac, u), frac |-> 0]
        ELSE [int |-> int, frac |-> u * RoundEven(frac \div u, 2 * (frac % u), u)]

\* -46.85 + 175.72 * raw_temp as f32 / 65536.0 in f32 arithmetic, in units
\* of 1/TempScale: the product is rounded to f32, the division by 2^16 is
\* exact, the sum with -46.85 (as f32: -12281446 / 2^18) is rounded to f32
convert_temp(raw_temp) ==
    LET p == F32Product(raw_temp)
        n == 8 * p.int + (p.frac \div 4096) - 2 * 12281446
        r == p.frac % 4096
        mag_int == IF n >= 0 THEN n ELSE IF r = 0 THEN 0 - n ELSE 0 - n - 1
        mag_frac == IF n >= 0 \/ r = 0 THEN r ELSE 4096 - r
        u == IF mag_int >= 8 * 8388608 THEN 8
             ELSE IF mag_int >= 4 * 8388608 THEN 4
             ELSE IF mag_int >= 2 * 8388608 THEN 2
             ELSE 1
        m == u * RoundEven(mag_int \div u, 2 * ((mag_int % u) * 4096 + mag_frac), u * 4096)
    IN  IF n >= 0 THEN m ELSE 0 - m

\* data & LSB_STATUS_MASK and data & !LSB_STATUS_MASK on a u16
StatusBits(data) == data % (LSB_STATUS_MASK + 1)
\* the status bits shifted out instead of cleared
ClearStatus_Shift(data) == data \div (LSB_STATUS_MASK + 1)
ClearStatus(data) == data - (data % (LSB_STATUS_MASK + 1))

\* the trigger without its in_progress test
trigger_temp_measurement_NoGuard(s, w) ==
    IF w.ok
    THEN [sht |-> [s EXCEPT !.in_progress = TRUE], res |-> Ok(0),
          wrote |-> <<TEMP_MEAS_NO_HOLD_MASTER>>]
    ELSE [sht |-> s, res |-> Err("I2c"), wrote |-> <<TEMP_MEAS_NO_HOLD_MASTER>>]

\* A bus write's outcome: w.ok with w.n bytes written, or a transport error.
\* The driver's step: the new driver state, the result, the bytes it put on
\* the bus (an attempted write counts).
trigger_temp_measurement(s, w) ==
    IF s.in_progress
    THEN [sht |-> s, res |-> Err("MeasInProgress"), wrote |-> <<>>]
    ELSE IF w.ok
         THEN [sht |-> [s EXCEPT !.in_progress = TRUE], res |-> Ok(0),
               wrote |-> <<TEMP_MEAS_NO_HOLD_MASTER>>]
         ELSE [sht |-> s, res |-> Err("I2c"),
               wrote |-> <<TEMP_MEAS_NO_HOLD_MASTER>>]

\* the trigger that marks the measurement as started before the write
trigger_humidity_measurement_SetsOnError(s, w) ==
    IF s.in_progress
    THEN [sht |-> s, res |-> Err("MeasInProgress"), wrote |-> <<>>]
    ELSE IF w.ok
         THEN [sht |-> [s EXCEPT !.in_progress = TRUE], res |-> Ok(0),
               wrote |-> <<RH_MEAS_NO_HOLD_MASTER>>]
         ELSE [sht |-> [s EXCEPT !.in_progress = TRUE], res |-> Err("I2c"),
               wrote |-> <<RH_MEAS_NO_HOLD_MASTER>>]

trigger_humidity_measurement(s, w) ==
    IF s.in_progress
    THEN [sht |-> s, res |-> Err("MeasInProgress"), wrote |-> <<>>]
    ELSE IF w.ok
         THEN [sht |-> [s EXCEPT !.in_progress = TRUE], res |-> Ok(0),
               wrote |-> <<RH_MEAS_NO_HOLD_MASTER>>]
         ELSE [sht |-> s, res |-> Err("I2c"),
               wrote |-> <<RH_MEAS_NO_HOLD_MASTER>>]

\* the read that forgets to reset in_progress when the read fails
read_measurement_NoReset(s, r) ==
    IF r.ok /\ r.n = EXPECTED_BYTES
    THEN LET data == r.bytes[1] * 256 + r.bytes[2]
         IN  IF StatusBits(data) = 0
             THEN [sht |-> [measurement_type |-> "Temperature", in_progress |-> FALSE],
                   res |-> Ok(convert_temp(ClearStatus(data)))]
             ELSE [sht |-> [measurement_type |-> "Humidity", in_progress |-> FALSE],
                   res |-> Ok(convert_humidity(ClearStatus(data)))]
    ELSE [sht |-> s, res |-> Err("BytesReadMismatch")]

\* A bus read's outcome: r.ok with r.n bytes read into raw_bytes = <<b0, b1>>,
\* or a transport error.
read_measurement(s, r) ==
    IF r.ok /\ r.n = EXPECTED_BYTES
    THEN LET data == r.bytes[1] * 256 + r.bytes[2]
         IN  IF StatusBits(data) = 0
             THEN [sht |-> [measurement_type |-> "Temperature", in_progress |-> FALSE],
                   res |-> Ok(convert_temp(ClearStatus(data)))]
             ELSE [sht |-> [measurement_type |-> "Humidity", in_progress |-> FALSE],
                   res |-> Ok(convert_humidity(ClearStatus(data)))]
    ELSE [sht |-> [s EXCEPT !.in_progress = FALSE], res |-> Err("BytesReadMismatch")]


\* ------------------------------------------------------------------------
\* The sensor on the bus and the database, as the program sees them
\* ------------------------------------------------------------------------
\* outcomes of i2c.write(&[cmd]): Ok(1), Ok(0) or a transport error
WriteOutcomes == {[ok |-> TRUE, n |-> 1], [ok |-> TRUE, n |-> 0], [ok |-> FALSE, n |-> 0]}

\* outcomes of a write to the device: a device that is not on the bus
\* (pending = "absent") acknowledges nothing
WritesTo(pending) ==
    IF pending = "absent" THEN {[ok |-> FALSE, n |-> 0]} ELSE WriteOutcomes

\* samples of the device after a temperature command (status bits 00)
TempBytes == {<<96, 0>>}
\* samples of the device after a humidity command (status bits 10):
\* about -6 %, 65 %, 72 %, 75 %, 85 % and 119 %
HumBytes == {<<0, 2>>, <<145, 106>>, <<159, 190>>, <<165, 226>>, <<186, 94>>, <<255, 254>>}

ReadFailures == {[ok |-> FALSE, n |-> 0, bytes |-> <<0, 0>>],
                 [ok |-> TRUE, n |-> 1, bytes |-> <<0, 0>>]}
Samples(bs) == {[ok |-> TRUE, n |-> EXPECTED_BYTES, bytes |-> b] : b \in bs}

\* outcomes of i2c.read(&mut raw_bytes) when the device holds the
\* measurement `pending` ("none", "temp" or "rh"; "absent": no device)
ReadOutcomes(pending) ==
    ReadFailures \cup (IF pending = "temp" THEN Samples(TempBytes)
                       ELSE IF pending = "rh" THEN Samples(HumBytes)
                       ELSE {})

\* the device after a write of one command byte
DeviceAfterWrite(pending, w, cmd) ==
    IF w.ok /\ w.n = 1
    THEN (IF cmd = TEMP_MEAS_NO_HOLD_MASTER THEN "temp" ELSE "rh")
    ELSE pending

\* outcomes of a statement on the postgres client
DbOutcomes(closed) == IF closed THEN {"closed"} ELSE {"ok", "error", "closed"}

\* rows of climate_data
ClimateRow(ts, t, h) ==
    [timestamp |-> ts, temperature |-> Some(t), humidity |-> Some(h), is_pump_start |-> FALSE]
PumpRow(ts) ==
    [timestamp |-> ts, temperature |-> None, humidity |-> None, is_pump_start |-> TRUE]

\* SELECT MAX(timestamp) FROM climate_data WHERE is_pump_start = TRUE:
\* an aggregate answers with exactly one row, whose column is NULL when no
\* row matches
PumpStarts(table) == {table[i].timestamp : i \in {j \in 1..Len(table) : table[j].is_pump_start}}
MaxOf(S) == CHOOSE m \in S : \A x \in S : x <= m
SelectMaxPumpStart(table) ==
    << << IF PumpStarts(table) = {} THEN None ELSE Some(MaxOf(PumpStarts(table))) >> >>

\* ------------------------------------------------------------------------
\* src/src/main.rs
\* ------------------------------------------------------------------------
\* get_next_pump_schedule on the rows the query returned, at wall-clock
\* time t: row.get(0) panics on a NULL column
get_next_pump_schedule(rows, t) ==
    IF Len(rows) > 0
    THEN (IF rows[1][1] = None
          THEN [kind |-> "Panic", val |-> 0]
          ELSE [kind |-> "Ok", val |-> rows[1][1][1] + PumpPeriod])
    ELSE [kind |-> "Ok", val |-> t + PumpPeriod]

\* (pump_schedule_dt - now_utc).num_seconds() as a std Duration, in ms
duration_until_pump(pump_schedule_dt, now_utc) ==
    IF pump_schedule_dt > now_utc
    THEN ((pump_schedule_dt - now_utc) \div 1000) * 1000
    ELSE 0

\* rh = if rh > 100.0 { 100.0 } else { rh }
ClampRh(rh) == IF rh > 100 * Scale THEN 100 * Scale ELSE rh

\* a single threshold instead of the band
Hysteresis_OneThreshold(line, rh) == rh < RH_HI_THRESH * Scale

\* the humidifier line after the two threshold tests of climate_service
Hysteresis(line, rh) ==
    LET afterLo == IF rh < RH_LO_THRESH * Scale THEN TRUE ELSE line
    IN  IF rh > RH_HI_THRESH * Scale THEN FALSE ELSE afterLo

VARIABLES
    pc,                \* where the process is
    now,               \* the clock, ms
    sht,               \* the SHT20 driver's fields
    device,            \* the measurement the sensor holds: "none", "temp", "rh"
    humd, fan, pump,   \* the three output lines, TRUE = High
    climate_data,      \* the database table
    client_closed,     \* postgres_client.is_closed()
    climate_next, fan_next, pump_next,   \* next deadline of each interval
    pump_schedule_dt,  \* main's recovered schedule, None before recovery
    temp, rh,          \* climate_service's locals, None until read
    start_time,        \* pump_service's local
    result,            \* what the last finished service call / startup returned
    restarts,          \* restarts so far
    humd_before,       \* the humidifier line when the current climate cycle began
    rows_before,       \* Len(climate_data) when the current service call began
    boot_rows,         \* the rows the recovery query returned, None if it failed
    boot_now,          \* the clock when recovery ran
    pump_high_at,      \* each pump.set_high(): its time and the line's level before it
    humd_after,        \* the humidifier line after each climate row the program appended
    call               \* the last driver call made directly on the driver

vars == <<pc, now, sht, device, humd, fan, pump, climate_data, client_closed,
          climate_next, fan_next, pump_next, pump_schedule_dt, temp, rh,
          start_time, result, restarts, humd_before, rows_before, boot_rows,
          boot_now, pump_high_at, humd_after, call>>

lines == <<humd, fan, pump>>
timers == <<climate_next, fan_next, pump_next>>
climateLocals == <<temp, rh, humd_before>>
bootVars == <<pump_schedule_dt, boot_rows, boot_now>>

\* a bus write's outcome in the shape of a bus read's
WriteIo(w) == [ok |-> w.ok, n |-> w.n, bytes |-> <<0, 0>>]

NoCall == [op |-> "none", before |-> SHT20_new, res |-> Ok(0), wrote |-> <<>>,
           io |-> WriteIo([ok |-> TRUE, n |-> 0]), pending |-> "none"]

\* histories the process may find at its first start: nothing, a pump start
\* whose period ends 150.5 s from now (after an older one and a climate
\* row), a pump start two periods and 1 s old (one period missed)
InitHistories ==
    { <<>>,
      << PumpRow(0 - 2 * PumpPeriod), ClimateRow(0 - PumpPeriod, convert_temp(24576), 72 * Scale),
         PumpRow(150500 - PumpPeriod) >>,
      << PumpRow(0 - 2 * PumpPeriod - 1000) >> }

Init ==
    /\ pc = "boot"
    /\ now = 0
    /\ sht = SHT20_new
    /\ device = "none"
    /\ humd = FALSE /\ fan = FALSE /\ pump = FALSE
    /\ climate_data \in InitHistories
    /\ client_closed = FALSE
    /\ climate_next = 0 /\ fan_next = 0 /\ pump_next = 0
    /\ pump_schedule_dt = None
    /\ temp = None /\ rh = None
    /\ start_time = 0
    /\ result = "none"
    /\ restarts = 0
    /\ humd_before = FALSE
    /\ rows_before = 0
    /\ boot_rows = None
    /\ boot_now = 0
    /\ pump_high_at = <<>>
    /\ humd_after = <<>>
    /\ call = NoCall


\* ------------------------------------------------------------------------
\* Startup: main, lines 59-84
\* ------------------------------------------------------------------------
\* memory of a process that is not running a service
IdleLocals ==
    /\ temp' = None /\ rh' = None /\ start_time' = 0
    /\ humd_before' = FALSE /\ rows_before' = 0

\* The recovery query succeeds (q = "ok") or fails; a failed query and a
\* NULL column both end in a panic of main.
Boot ==
    /\ pc = "boot"
    /\ \E q \in {"ok", "error"} :
         LET rows  == SelectMaxPumpStart(climate_data)
             sched == get_next_pump_schedule(rows, now)
         IN  /\ boot_now' = now
             /\ boot_rows' = IF q = "ok" THEN Some(rows) ELSE None
             /\ IF q = "ok" /\ sched.kind = "Ok"
                THEN /\ pump_schedule_dt' = Some(sched.val)
                     /\ climate_next' = now
                     /\ fan_next' = now
                     /\ pump_next' = now + duration_until_pump(sched.val, now)
                     /\ pc' = "wait"
                     /\ result' = "started"
                ELSE /\ pump_schedule_dt' = None
                     /\ UNCHANGED timers
                     /\ pc' = "exited"
                     /\ result' = "panic"
    /\ UNCHANGED <<now, sht, device, lines, climate_data, client_closed, temp, rh,
                   start_time, restarts, humd_before, rows_before, pump_high_at, humd_after, call>>

\* ------------------------------------------------------------------------
\* The select loop: main, lines 86-123
\* ------------------------------------------------------------------------
\* the time at which select! returns: now if a tick is already due, else
\* the earliest deadline
Wake == Max(now, Min(climate_next, Min(fan_next, pump_next)))
Due(deadline, horizon) == pc = "wait" /\ deadline <= Wake /\ Wake <= horizon

\* main's handling of a climate_service error that is a postgres error:
\* on a closed connection it calls try_reconnect, which awaits the connect
AfterDbError(d) ==
    /\ client_closed' = (d = "closed")
    /\ pc' = IF d = "closed" THEN "reconnect" ELSE "wait"
    /\ result' = "climate db error"

\* try_reconnect, lines 138-150: establish_connection().await returns; a
\* new client replaces the closed one, or the error ends main
Reconnect ==
    /\ pc = "reconnect"
    /\ IF client_closed
       THEN \E c \in {"ok", "fail"} :
              IF c = "ok"
              THEN client_closed' = FALSE /\ pc' = "wait" /\ UNCHANGED result
              ELSE pc' = "exited" /\ result' = "reconnect failed" /\ UNCHANGED client_closed
       ELSE pc' = "wait" /\ UNCHANGED <<client_closed, result>>
    /\ UNCHANGED <<now, sht, device, lines, climate_data, timers, bootVars, climateLocals,
                   start_time, restarts, rows_before, pump_high_at, humd_after, call>>

\* ------------------------------------------------------------------------
\* climate_service, lines 157-217
\* ------------------------------------------------------------------------
\* climate_service returns the driver's error: a trigger refused because a
\* measurement is in progress, or a bus failure
SensorFailure(res) == IF res.err = "MeasInProgress" THEN "sensor busy" ELSE "sensor error"

\* the climate tick: get_temperature_celsius triggers the measurement
ClimateTickUntil(horizon) ==
    /\ Due(climate_next, horizon)
    /\ now' = Wake
    /\ climate_next' = climate_next + ClimatePeriod
    /\ humd_before' = humd
    /\ rows_before' = Len(climate_data)
    /\ temp' = None /\ rh' = None
    /\ \E w \in WritesTo(device) :
         LET t == trigger_temp_measurement(sht, w)
         IN  /\ sht' = t.sht
             /\ device' = DeviceAfterWrite(device, w, TEMP_MEAS_NO_HOLD_MASTER)
             /\ IF t.res.ok
                THEN pc' = "temp_settle" /\ result' = "running"
                ELSE pc' = "wait" /\ result' = SensorFailure(t.res)
    /\ UNCHANGED <<lines, climate_data, client_closed, fan_next, pump_next, bootVars,
                   start_time, restarts, pump_high_at, humd_after, call>>

ClimateTick == ClimateTickUntil(Horizon)

\* after the settling delay: read the temperature, then trigger humidity
ClimateReadTemp ==
    /\ pc = "temp_settle"
    /\ now' = now + SETTLE_MILLIS
    /\ \E r \in ReadOutcomes(device), w \in WritesTo(device) :
         LET m == read_measurement(sht, r)
             t == trigger_humidity_measurement(m.sht, w)
         IN  IF m.res.ok
             THEN /\ temp' = Some(m.res.val)
                  /\ sht' = t.sht
                  /\ device' = DeviceAfterWrite("none", w, RH_MEAS_NO_HOLD_MASTER)
                  /\ IF t.res.ok
                     THEN pc' = "rh_settle" /\ result' = "running"
                     ELSE pc' = "wait" /\ result' = SensorFailure(t.res)
             ELSE /\ temp' = None
                  /\ sht' = m.sht
                  /\ device' = "none"
                  /\ pc' = "wait" /\ result' = SensorFailure(m.res)
    /\ UNCHANGED <<lines, climate_data, client_closed, timers, bootVars, rh, start_time,
                   restarts, humd_before, rows_before, pump_high_at, humd_after, call>>

\* the humidity read that switches the humidifier off when the read fails
ClimateReadHumidity_FailOff ==
    /\ pc = "rh_settle"
    /\ now' = now + SETTLE_MILLIS
    /\ device' = "none"
    /\ \E r \in ReadOutcomes(device) :
         LET m == read_measurement(sht, r)
         IN  /\ sht' = m.sht
             /\ IF m.res.ok
                THEN rh' = Some(ClampRh(m.res.val)) /\ pc' = "climate_prepare"
                     /\ result' = "running" /\ humd' = humd
                ELSE rh' = None /\ pc' = "wait" /\ result' = SensorFailure(m.res)
                     /\ humd' = FALSE
    /\ UNCHANGED <<fan, pump, climate_data, client_closed, timers, bootVars, temp,
                   start_time, restarts, humd_before, rows_before, pump_high_at,
                   humd_after, call>>

\* after the settling delay: read the humidity, clamp it, prepare the insert
ClimateReadHumidity ==
    /\ pc = "rh_settle"
    /\ now' = now + SETTLE_MILLIS
    /\ device' = "none"
    /\ \E r \in ReadOutcomes(device) :
         LET m == read_measurement(sht, r)
         IN  /\ sht' = m.sht
             /\ IF m.res.ok
                THEN rh' = Some(ClampRh(m.res.val)) /\ pc' = "climate_prepare"
                     /\ result' = "running"
                ELSE rh' = None /\ pc' = "wait" /\ result' = SensorFailure(m.res)
    /\ UNCHANGED <<lines, climate_data, client_closed, timers, bootVars, temp, start_time,
                   restarts, humd_before, rows_before, pump_high_at, humd_after, call>>

\* client.prepare(...) returns
ClimatePrepare ==
    /\ pc = "climate_prepare"
    /\ \E d \in DbOutcomes(client_closed) :
         IF d = "ok"
         THEN pc' = "climate_execute" /\ result' = "running" /\ UNCHANGED client_closed
         ELSE AfterDbError(d)
    /\ UNCHANGED <<now, sht, device, lines, climate_data, timers, bootVars, climateLocals,
                   start_time, restarts, rows_before, pump_high_at, humd_after, call>>

\* the execute step that logs only the cycles that change the line
ClimateExecute_LogOnChange ==
    /\ pc = "climate_execute"
    /\ \E d \in DbOutcomes(client_closed) :
         IF d = "ok"
         THEN /\ climate_data' = IF Hysteresis(humd, rh[1]) # humd
                                 THEN Append(climate_data, ClimateRow(now, temp[1], rh[1]))
                                 ELSE climate_data
              /\ pc' = "climate_logged"
              /\ UNCHANGED <<client_closed, result>>
         ELSE /\ AfterDbError(d)
              /\ UNCHANGED climate_data
    /\ UNCHANGED <<now, sht, device, lines, timers, bootVars, climateLocals,
                   start_time, restarts, rows_before, pump_high_at, humd_after, call>>

\* client.execute(...) is awaited: the database stores the row, or the
\* statement fails
ClimateExecute ==
    /\ pc = "climate_execute"
    /\ \E d \in DbOutcomes(client_closed) :
         IF d = "ok"
         THEN /\ climate_data' = Append(climate_data, ClimateRow(now, temp[1], rh[1]))
              /\ pc' = "climate_logged"
              /\ UNCHANGED <<client_closed, result>>
         ELSE /\ AfterDbError(d)
              /\ UNCHANGED climate_data
    /\ UNCHANGED <<now, sht, device, lines, timers, bootVars, climateLocals,
                   start_time, restarts, rows_before, pump_high_at, humd_after, call>>

\* the execute has returned Ok: the two threshold tests set the line
ClimateDecide ==
    /\ pc = "climate_logged"
    /\ humd' = Hysteresis(humd, rh[1])
    /\ humd_after' = Append(humd_after, humd')
    /\ pc' = "wait" /\ result' = "climate ok"
    /\ UNCHANGED <<now, sht, device, fan, pump, climate_data, client_closed, timers,
                   bootVars, climateLocals, start_time, restarts, rows_before,
                   pump_high_at, call>>

\* ------------------------------------------------------------------------
\* fan_service, lines 281-287
\* ------------------------------------------------------------------------
FanTickUntil(horizon) ==
    /\ Due(fan_next, horizon)
    /\ now' = Wake
    /\ fan_next' = fan_next + FanPeriod
    /\ fan' = TRUE
    /\ pc' = "fan_pulse" /\ result' = "running"
    /\ rows_before' = Len(climate_data)
    /\ UNCHANGED <<sht, device, humd, pump, climate_data, client_closed, climate_next,
                   pump_next, bootVars, climateLocals, start_time, restarts,
                   pump_high_at, humd_after, call>>

FanTick == FanTickUntil(Horizon)

\* the end of the pulse that leaves the fan running
FanPulseEnd_StaysHigh ==
    /\ pc = "fan_pulse"
    /\ now' = now + FAN_DURATION_SECS * 1000
    /\ fan' = fan
    /\ pc' = "wait" /\ result' = "fan ok"
    /\ UNCHANGED <<sht, device, humd, pump, climate_data, client_closed, timers, bootVars,
                   climateLocals, start_time, restarts, rows_before, pump_high_at, humd_after, call>>

\* the end of the pulse that switches every line off
FanPulseEnd_AllLow ==
    /\ pc = "fan_pulse"
    /\ now' = now + FAN_DURATION_SECS * 1000
    /\ fan' = FALSE /\ humd' = FALSE /\ pump' = FALSE
    /\ pc' = "wait" /\ result' = "fan ok"
    /\ UNCHANGED <<sht, device, climate_data, client_closed, timers, bootVars,
                   climateLocals, start_time, restarts, rows_before, pump_high_at, humd_after, call>>

FanPulseEnd ==
    /\ pc = "fan_pulse"
    /\ now' = now + FAN_DURATION_SECS * 1000
    /\ fan' = FALSE
    /\ pc' = "wait" /\ result' = "fan ok"
    /\ UNCHANGED <<sht, device, humd, pump, climate_data, client_closed, timers, bootVars,
                   climateLocals, start_time, restarts, rows_before, pump_high_at, humd_after, call>>

\* ------------------------------------------------------------------------
\* pump_service and run_pump_interval, lines 222-260
\* ------------------------------------------------------------------------
\* the pump tick: start_time is taken and client.prepare(...) is awaited
PumpTickUntil(horizon) ==
    /\ Due(pump_next, horizon)
    /\ now' = Wake
    /\ pump_next' = pump_next + PumpPeriod
    /\ start_time' = Wake
    /\ rows_before' = Len(climate_data)
    /\ pc' = "pump_prepare" /\ result' = "running"
    /\ UNCHANGED <<sht, device, lines, climate_data, client_closed, climate_next, fan_next,
                   bootVars, climateLocals, restarts, pump_high_at, humd_after, call>>

PumpTick == PumpTickUntil(Horizon)

\* client.prepare(...) returns; if it worked run_pump_interval raises the
\* line
PumpPrepare ==
    /\ pc = "pump_prepare"
    /\ \E d \in DbOutcomes(client_closed) :
         IF d = "ok"
         THEN /\ pump' = TRUE
              /\ pump_high_at' = Append(pump_high_at, [at |-> now, was_high |-> pump])
              /\ pc' = "pump_pulse"
              /\ UNCHANGED <<client_closed, result>>
         ELSE /\ client_closed' = (d = "closed")
              /\ pc' = "wait" /\ result' = "pump db error"
              /\ UNCHANGED <<pump, pump_high_at>>
    /\ UNCHANGED <<now, sht, device, humd, fan, climate_data, timers, bootVars,
                   climateLocals, start_time, restarts, rows_before, humd_after, call>>

\* the end of the pulse that leaves the pump running
PumpPulseEnd_StaysHigh ==
    /\ pc = "pump_pulse"
    /\ now' = now + PUMP_DURATION_SECS * 1000
    /\ pump' = pump
    /\ pc' = "pump_execute"
    /\ UNCHANGED <<sht, device, humd, fan, climate_data, client_closed, timers, bootVars,
                   climateLocals, start_time, result, restarts, rows_before,
                   pump_high_at, humd_after, call>>

\* run_pump_interval's sleep is over: the line goes Low
PumpPulseEnd ==
    /\ pc = "pump_pulse"
    /\ now' = now + PUMP_DURATION_SECS * 1000
    /\ pump' = FALSE
    /\ pc' = "pump_execute"
    /\ UNCHANGED <<sht, device, humd, fan, climate_data, client_closed, timers, bootVars,
                   climateLocals, start_time, result, restarts, rows_before,
                   pump_high_at, humd_after, call>>

\* client.execute(&stmt, &[&start_time]) returns
PumpExecute ==
    /\ pc = "pump_execute"
    /\ \E d \in DbOutcomes(client_closed) :
         IF d = "ok"
         THEN /\ climate_data' = Append(climate_data, PumpRow(start_time))
              /\ pc' = "wait" /\ result' = "pump ok"
              /\ UNCHANGED client_closed
         ELSE /\ client_closed' = (d = "closed")
              /\ pc' = "wait" /\ result' = "pump db error"
              /\ UNCHANGED climate_data
    /\ UNCHANGED <<now, sht, device, lines, timers, bootVars, climateLocals, start_time,
                   restarts, rows_before, pump_high_at, humd_after, call>>

\* ------------------------------------------------------------------------
\* The process is killed and started again
\* ------------------------------------------------------------------------
\* the start after a process ended at time t
NextStart(t) == ((t \div RestartGrid) + 1) * RestartGrid

Running == pc \in {"wait", "temp_settle", "rh_settle", "climate_prepare",
                   "climate_execute", "climate_logged", "reconnect", "fan_pulse", "pump_prepare", "pump_pulse",
                   "pump_execute"}

\* the process dies where it stands: the table keeps its rows, the memory
\* of the process is gone, and the lines keep their level (the process is
\* killed) or fall Low (the board loses power)
Crash ==
    /\ Running
    /\ restarts < MaxRestarts
    /\ pc' = "crashed"
    /\ result' = "killed"
    /\ \/ UNCHANGED lines
       \/ humd' = FALSE /\ fan' = FALSE /\ pump' = FALSE
    /\ IdleLocals
    /\ climate_next' = 0 /\ fan_next' = 0 /\ pump_next' = 0
    /\ pump_schedule_dt' = None /\ boot_rows' = None /\ boot_now' = 0
    /\ sht' = SHT20_new /\ client_closed' = FALSE
    /\ UNCHANGED <<now, device, climate_data, restarts, pump_high_at, humd_after, call>>

\* a new process: main's construction, lines 39-57, which succeeds or
\* returns an error from main (Gpio::new, SHT20::new, gpio.get,
\* establish_connection) before any query
Restart ==
    /\ pc \in {"crashed", "exited"}
    /\ restarts < MaxRestarts
    /\ restarts' = restarts + 1
    /\ now' = NextStart(now)
    /\ \E c \in {"ok", "fail"} :
         IF c = "ok"
         THEN pc' = "boot" /\ result' = "none"
         ELSE pc' = "exited" /\ result' = "construction failed"
    /\ sht' = SHT20_new
    /\ client_closed' = FALSE
    /\ IdleLocals
    /\ climate_next' = 0 /\ fan_next' = 0 /\ pump_next' = 0
    /\ pump_schedule_dt' = None /\ boot_rows' = None /\ boot_now' = 0
    /\ UNCHANGED <<device, lines, climate_data, pump_high_at, humd_after, call>>

Next ==
    \/ Boot
    \/ ClimateTick \/ ClimateReadTemp \/ ClimateReadHumidity
    \/ ClimatePrepare \/ ClimateExecute \/ ClimateDecide \/ Reconnect
    \/ FanTick \/ FanPulseEnd
    \/ PumpTick \/ PumpPrepare \/ PumpPulseEnd \/ PumpExecute

Spec == Init /\ [][Next]_vars

\* the same program under a supervisor that kills and restarts it
ClimateTickCrash == ClimateTickUntil(CrashHorizon)
FanTickCrash == FanTickUntil(CrashHorizon)
PumpTickCrash == PumpTickUntil(CrashHorizon)

NextCrash ==
    \/ Boot
    \/ ClimateTickCrash \/ ClimateReadTemp \/ ClimateReadHumidity
    \/ ClimatePrepare \/ ClimateExecute \/ ClimateDecide \/ Reconnect
    \/ FanTickCrash \/ FanPulseEnd
    \/ PumpTickCrash \/ PumpPrepare \/ PumpPulseEnd \/ PumpExecute
    \/ Crash \/ Restart

SpecCrash == Init /\ [][NextCrash]_vars

\* the same program followed over a whole pump period, with no sensor on
\* the bus: every climate tick ends at its first trigger
InitDay ==
    /\ pc = "boot"
    /\ now = 0
    /\ sht = SHT20_new
    /\ device = "absent"
    /\ humd = FALSE /\ fan = FALSE /\ pump = FALSE
    /\ climate_data \in InitHistories
    /\ client_closed = FALSE
    /\ climate_next = 0 /\ fan_next = 0 /\ pump_next = 0
    /\ pump_schedule_dt = None
    /\ temp = None /\ rh = None
    /\ start_time = 0
    /\ result = "none"
    /\ restarts = 0
    /\ humd_before = FALSE
    /\ rows_before = 0
    /\ boot_rows = None
    /\ boot_now = 0
    /\ pump_high_at = <<>>
    /\ humd_after = <<>>
    /\ call = NoCall

DayHorizon == PumpPeriod + DayMargin
ClimateTickDay == ClimateTickUntil(DayHorizon)
FanTickDay == FanTickUntil(DayHorizon)
PumpTickDay == PumpTickUntil(DayHorizon)

NextDay ==
    \/ Boot
    \/ ClimateTickDay
    \/ FanTickDay \/ FanPulseEnd
    \/ PumpTickDay \/ PumpPrepare \/ PumpPulseEnd \/ PumpExecute

SpecDay == InitDay /\ [][NextDay]_vars



\* ------------------------------------------------------------------------
\* The driver on its own: its three private steps called in any order, on a
\* bus that may answer with any sample
\* ------------------------------------------------------------------------
\* samples with each pattern of status bits
AnyBytes ==
    TempBytes \cup HumBytes \cup
    {<<64, 1>>, <<64, 2>>, <<64, 3>>, <<0, 0>>, <<128, 0>>, <<255, 252>>, <<255, 255>>}

InitDriver ==
    /\ pc = "driver"
    /\ now = 0
    /\ sht = SHT20_new
    /\ device = "none"
    /\ humd = FALSE /\ fan = FALSE /\ pump = FALSE
    /\ climate_data = <<>>
    /\ client_closed = FALSE
    /\ climate_next = 0 /\ fan_next = 0 /\ pump_next = 0
    /\ pump_schedule_dt = None
    /\ temp = None /\ rh = None
    /\ start_time = 0
    /\ result = "none"
    /\ restarts = 0
    /\ humd_before = FALSE
    /\ rows_before = 0
    /\ boot_rows = None
    /\ boot_now = 0
    /\ pump_high_at = <<>>
    /\ humd_after = <<>>
    /\ call = NoCall

notDriver == <<pc, now, humd, fan, pump, climate_data, client_closed, climate_next,
               fan_next, pump_next, pump_schedule_dt, temp, rh, start_time, result,
               restarts, humd_before, rows_before, boot_rows, boot_now, pump_high_at,
               humd_after>>

DrvTriggerTemp ==
    /\ pc = "driver"
    /\ \E w \in WriteOutcomes :
         LET t == trigger_temp_measurement(sht, w)
         IN  /\ sht' = t.sht
             /\ device' = IF t.wrote = <<>> THEN device
                          ELSE DeviceAfterWrite(device, w, TEMP_MEAS_NO_HOLD_MASTER)
             /\ call' = [op |-> "trigger_temp", before |-> sht, res |-> t.res,
                         wrote |-> t.wrote, io |-> WriteIo(w), pending |-> device]
    /\ UNCHANGED notDriver

DrvTriggerHumidity ==
    /\ pc = "driver"
    /\ \E w \in WriteOutcomes :
         LET t == trigger_humidity_measurement(sht, w)
         IN  /\ sht' = t.sht
             /\ device' = IF t.wrote = <<>> THEN device
                          ELSE DeviceAfterWrite(device, w, RH_MEAS_NO_HOLD_MASTER)
             /\ call' = [op |-> "trigger_humidity", before |-> sht, res |-> t.res,
                         wrote |-> t.wrote, io |-> WriteIo(w), pending |-> device]
    /\ UNCHANGED notDriver

DrvReadMeasurement ==
    /\ pc = "driver"
    /\ \E r \in ReadFailures \cup Samples(AnyBytes) :
         LET m == read_measurement(sht, r)
         IN  /\ sht' = m.sht
             /\ device' = "none"
             /\ call' = [op |-> "read_measurement", before |-> sht, res |-> m.res,
                         wrote |-> <<>>, io |-> r, pending |-> device]
    /\ UNCHANGED notDriver

NextDriver == DrvTriggerTemp \/ DrvTriggerHumidity \/ DrvReadMeasurement

SpecDriver == InitDriver /\ [][NextDriver]_vars


\* ------------------------------------------------------------------------
\* Properties
\* ------------------------------------------------------------------------
\* the column of the one row the recovery query returned
BootColumn == boot_rows[1][1][1]
\* recovery has run in this process
Recovered == pc \notin {"boot", "crashed", "driver"} /\ result # "construction failed"

\* the policy of the specification: below lo High, above hi Low, else as it was
Policy(line, h) ==
    IF h < RH_LO_THRESH * Scale THEN TRUE
    ELSE IF h > RH_HI_THRESH * Scale THEN FALSE
    ELSE line

\* the humidity a two-byte sample converts to
HumidityOf(b) == convert_humidity(ClearStatus(b[1] * 256 + b[2]))
\* the humidity of the i-th climate row the program appended
ClimateRows == SelectSeq(climate_data, LAMBDA r : ~r.is_pump_start)
DecidedRows == Len(ClimateRows) - (IF pc = "climate_logged" THEN 1 ELSE 0)
AppendedHumidity(i) == ClimateRows[DecidedRows - Len(humd_after) + i].humidity[1]
\* the readings of the example: about 65, 75, 85 and 72 percent
ExampleReadings ==
    << HumidityOf(<<145, 106>>), HumidityOf(<<165, 226>>), HumidityOf(<<186, 94>>),
       HumidityOf(<<159, 190>>) >>
ExampleAt(i) == \A k \in 1..4 : AppendedHumidity(i + k - 1) = ExampleReadings[k]

\* C1: any two consecutive moments at which the pump line is raised from Low
\* to High are at least one pump period apart, whatever ticks, crashes and
\* restarts happen.
PumpRaises == SelectSeq(pump_high_at, LAMBDA e : ~e.was_high)
C1_PumpOncePerPeriod ==
    \A i \in 1..(Len(PumpRaises) - 1) :
        PumpRaises[i + 1].at - PumpRaises[i].at >= PumpPeriod

\* C2: once the recovery query has answered, a history whose most recent pump
\* start is T gives the schedule T + period, and a history without a pump
\* start gives the schedule "now" (the time recovery ran).
C2_ScheduleRecovery ==
    (Recovered /\ boot_rows # None) =>
        /\ BootColumn # None => pump_schedule_dt = Some(BootColumn[1] + PumpPeriod)
        /\ BootColumn = None => pump_schedule_dt = Some(boot_now)

\* C3: a successful climate cycle leaves the humidifier line as the policy
\* says (High below 70, Low above 80, unchanged in between); the line after
\* each logged cycle is the policy applied to the line after the previous
\* one, so it never moves while the humidity stays in the band; and the
\* readings 65, 75, 85, 72 give High, unchanged, Low, unchanged.
C3_Hysteresis ==
    /\ result = "climate ok" => humd = Policy(humd_before, rh[1])
    /\ \A i \in 1..Len(humd_after) :
          humd_after[i] = Policy(IF i = 1 THEN FALSE ELSE humd_after[i - 1],
                                 AppendedHumidity(i))
    /\ Len(humd_after) > 0 => humd = humd_after[Len(humd_after)]
    /\ \A i \in 1..(Len(humd_after) - 3) :
          ExampleAt(i) =>
              /\ humd_after[i] = TRUE
              /\ humd_after[i + 1] = humd_after[i]
              /\ humd_after[i + 2] = FALSE
              /\ humd_after[i + 3] = humd_after[i + 2]

\* the four example readings have been logged by four cycles in a row
C3_Witness == Len(humd_after) = 4 /\ ExampleAt(1) /\ result = "climate ok"

\* C4: a trigger called while a measurement is in progress fails with
\* MeasInProgress, writes nothing on the bus and leaves the driver as it was.
C4_MutualExclusion ==
    (call.op \in {"trigger_temp", "trigger_humidity"} /\ call.before.in_progress) =>
        /\ call.res = Err("MeasInProgress")
        /\ call.wrote = <<>>
        /\ sht = call.before

\* a temperature trigger was called while a humidity-tagged read had been
\* followed by a new measurement still in progress
C4_Witness ==
    /\ call.op = "trigger_temp"
    /\ call.before.in_progress
    /\ call.before.measurement_type = "Humidity"

\* C5: after read_measurement returns, whatever the bus answered, the driver
\* is idle.
C5_IdleAfterRead == call.op = "read_measurement" => ~sht.in_progress

\* a read that failed while a measurement was in progress
C5_Witness ==
    /\ call.op = "read_measurement"
    /\ call.before.in_progress
    /\ call.res = Err("BytesReadMismatch")

\* C6: a climate cycle whose temperature or humidity reading failed has
\* returned to the loop with the humidifier line as it was at the tick, with
\* no row appended, and with the driver idle for the next tick.
C6_SensorFailureAborts ==
    result = "sensor error" =>
        /\ pc = "wait"
        /\ humd = humd_before
        /\ Len(climate_data) = rows_before
        /\ ~sht.in_progress
        /\ rh = None

\* the humidity reading failed, after a good temperature, with the line High
C6_Witness == result = "sensor error" /\ temp # None /\ humd_before

\* C7: a climate cycle whose prepare or insert failed keeps the process
\* running, appends no row and still applies the hysteresis decision for the
\* cycle's humidity to the humidifier line.
C7_DbFailureStillDecides ==
    result \in {"climate db error", "reconnect failed"} =>
        /\ pc # "exited"
        /\ Len(climate_data) = rows_before
        /\ humd = Policy(humd_before, rh[1])

\* C8: a climate cycle that returned Ok has appended exactly one row, holding
\* the time of the insert and the cycle's temperature and humidity, whether
\* or not the line changed; no climate cycle appends more than one row.
C8_OneRowPerCycle ==
    /\ result = "climate ok" =>
          /\ Len(climate_data) = rows_before + 1
          /\ climate_data[Len(climate_data)] = ClimateRow(now, temp[1], rh[1])
    /\ pc = "climate_logged" =>
          /\ Len(climate_data) = rows_before + 1
          /\ climate_data[Len(climate_data)] = ClimateRow(now, temp[1], rh[1])
    /\ (pc \in {"temp_settle", "rh_settle", "climate_prepare", "climate_execute",
                "reconnect"}
        \/ result \in {"sensor error", "climate db error", "reconnect failed"}) =>
          Len(climate_data) = rows_before

\* a cycle that returned Ok, logged its row and left the line where it was
C8_Witness ==
    /\ result = "climate ok"
    /\ humd = humd_before
    /\ Len(climate_data) = rows_before + 1

\* C9: the humidity compared with the thresholds and every humidity written
\* to the table lie in [0, 100].
C9_HumidityClamped ==
    /\ rh # None => (0 <= rh[1] /\ rh[1] <= 100 * Scale)
    /\ \A i \in 1..Len(ClimateRows) :
          /\ 0 <= ClimateRows[i].humidity[1]
          /\ ClimateRows[i].humidity[1] <= 100 * Scale

\* C10: when the history cannot be read at startup (the query fails, or it
\* gives no usable most recent value), recovery gives the empty-history
\* default and the process goes on to the service loop.
C10_UnreadableHistoryTolerated ==
    (Recovered /\ (boot_rows = None \/ BootColumn = None)) =>
        /\ pc # "exited"
        /\ pump_schedule_dt = Some(boot_now)


\* the service loop has been entered by this process
LoopStarted == Recovered /\ pump_schedule_dt # None

\* C11: once the service loop has started, no failed climate, fan or pump
\* tick ends the process.
C11_NoTickEndsProcess == LoopStarted => pc # "exited"

\* the recovered schedule was not in the future when the process started
PastDue == LoopStarted /\ pump_schedule_dt[1] <= boot_now

\* C12: when the recovered schedule is already in the past at startup, the
\* pump is raised at the first tick, missed periods are not replayed, and the
\* raise that follows comes one full period later: no two raises of the
\* process are less than a period apart.
C12_FollowingFireOnePeriodLater ==
    PastDue =>
        \A i \in 1..(Len(pump_high_at) - 1) :
            pump_high_at[i + 1].at - pump_high_at[i].at >= PumpPeriod

\* the pump-start rows the running process has appended, as places in the
\* table
AppendedStarts ==
    {k \in 1..Len(climate_data) :
        climate_data[k].is_pump_start /\ climate_data[k].timestamp >= boot_now}
\* schedule recovery evaluated when the table held its first k rows
RecoveryAfter(k) ==
    get_next_pump_schedule(SelectMaxPumpStart(SubSeq(climate_data, 1, k)), now)

\* C13: the next-due times that recovery gives after each pump-start row
\* appended by successive pump runs are strictly increasing, each exactly one
\* period after the one before.
C13_ExactlyOnePeriod ==
    \A j, k \in AppendedStarts :
        (j < k /\ \A m \in AppendedStarts : ~(j < m /\ m < k)) =>
            /\ RecoveryAfter(j).kind = "Ok" /\ RecoveryAfter(k).kind = "Ok"
            /\ RecoveryAfter(k).val - RecoveryAfter(j).val = PumpPeriod


\* the 16-bit sample of the last driver call's bus read
RawSample == call.io.bytes[1] * 256 + call.io.bytes[2]
FullRead == call.op = "read_measurement" /\ call.io.ok /\ call.io.n = 2

\* C14: a read of two bytes classifies the sample by its low 2 bits alone,
\* whatever measurement the device was asked for: low bits 00 give
\* Temperature and -46.85 + 175.72 * m / 65536 to within the rounding of
\* f32 arithmetic (2^-15 degree), any other low bits give Humidity and
\* -6 + 125 * m / 65536, with m the sample less its low 2 bits;
\* the sample 0b0100000000000010 is Humidity with the value 25.25.
C14_ClassifiedByStatusBits ==
    FullRead =>
        LET low == RawSample % 4
            m == RawSample - low
        IN  /\ low = 0 =>
                 /\ sht.measurement_type = "Temperature"
                 /\ call.res.ok
                 /\ 25 * call.res.val - 2 * (17572 * m - 307036160) \in -400..400
            /\ low # 0 =>
                 /\ sht.measurement_type = "Humidity"
                 /\ call.res = Ok(12500 * m - 39321600)
            /\ RawSample = 16386 =>
                 /\ sht.measurement_type = "Humidity"
                 /\ call.res.val * 4 = 101 * Scale

\* the sample 0b0100000000000010 was read after a temperature command and
\* came out as humidity 25.25
C14_Witness ==
    /\ FullRead
    /\ call.pending = "temp"
    /\ call.io.bytes = <<64, 2>>
    /\ sht.measurement_type = "Humidity"
    /\ call.res = Ok(165478400)

IdleTrigger == call.op \in {"trigger_temp", "trigger_humidity"} /\ ~call.before.in_progress

\* C16: a trigger called while idle leaves the driver measuring only if the
\* one command byte was written completely; when the write fails or writes
\* fewer bytes the trigger returns the bus error and the driver stays idle.
C16_ShortWriteFails ==
    IdleTrigger =>
        IF call.io.ok /\ call.io.n = 1
        THEN call.res.ok /\ sht.in_progress
        ELSE call.res = Err("I2c") /\ ~sht.in_progress


\* C15: whenever the pump line is High the table already holds the
\* pump-start row of that pulse, stamped with the time the service began.
C15_RecordBeforePulse ==
    pump => \E i \in 1..Len(climate_data) :
                /\ climate_data[i].is_pump_start
                /\ climate_data[i].timestamp = start_time

\* the places of the loop's climate arm: the service and the reconnect
ClimatePcs == {"temp_settle", "rh_settle", "climate_prepare", "climate_execute",
               "climate_logged", "reconnect"}

\* C17: the services never overlap: the fan line is High only inside the
\* fan pulse, the pump line only inside the pump pulse, neither during a
\* climate cycle, and so never both at once; a fan pulse starts only from the
\* waiting loop, where the fan line is Low.
C17_ServicesNeverOverlap ==
    /\ ~(fan /\ pump)
    /\ fan => pc = "fan_pulse"
    /\ pump => pc = "pump_pulse"
    /\ pc \in ClimatePcs => ~fan /\ ~pump
    /\ pc = "wait" => ~fan

\* the pump pulse runs while the fan tick and the climate tick are both due
C17_Witness ==
    /\ pc = "pump_pulse" /\ pump /\ ~fan
    /\ fan_next <= now
    /\ climate_next <= now

\* the service a step of the running loop belongs to
ClimateStep == pc \in ClimatePcs \/ (pc = "wait" /\ climate_next' # climate_next)
FanStep == pc = "fan_pulse" \/ (pc = "wait" /\ fan_next' # fan_next)
PumpStep ==
    \/ pc \in {"pump_prepare", "pump_pulse", "pump_execute"}
    \/ (pc = "wait" /\ pump_next' # pump_next)
NewRows == {climate_data'[i] : i \in (Len(climate_data) + 1)..Len(climate_data')}

\* C18: every step keeps the rows already in the table; a climate step
\* changes no line but the humidifier's and adds only climate rows, a fan
\* step changes no line but the fan's and adds no row, a pump step changes no
\* line but the pump's and adds only pump-start rows; no other step changes
\* a line or adds a row.
C18_SingleWriter ==
    [][ /\ Len(climate_data') >= Len(climate_data)
        /\ SubSeq(climate_data', 1, Len(climate_data)) = climate_data
        /\ ClimateStep => /\ fan' = fan /\ pump' = pump
                          /\ \A row \in NewRows : ~row.is_pump_start
        /\ FanStep => /\ humd' = humd /\ pump' = pump
                      /\ NewRows = {}
        /\ PumpStep => /\ humd' = humd /\ fan' = fan
                       /\ \A row \in NewRows : row.is_pump_start
        /\ humd' # humd => ClimateStep
        /\ fan' # fan => FanStep
        /\ pump' # pump => PumpStep
        /\ NewRows # {} => ClimateStep \/ PumpStep
      ]_vars

\* a pump run has added its row after a climate cycle added one and switched
\* the humidifier on, and after a fan pulse
C18_Witness ==
    /\ pc = "wait" /\ result = "pump ok"
    /\ humd /\ ~fan /\ ~pump
    /\ fan_next > boot_now
    /\ Len(climate_data) >= 3
    /\ ~climate_data[Len(climate_data) - 1].is_pump_start
    /\ climate_data[Len(climate_data)].is_pump_start

\* C19: in a run that started with the fan and pump lines Low, the fan
\* line goes High only in the step that takes one tick of the fan timer from
\* the waiting loop; the pump line goes High only when the prepare of a pump
\* tick returns, a pump tick is prepared only in the step that takes one
\* tick of the pump timer from the waiting loop, and the prepare returns
\* once; whenever the loop waits again both lines are Low, whatever the
\* tick returned.
C19_OnePulsePerTick ==
    [][ /\ (fan' /\ ~fan) => pc = "wait" /\ fan_next' = fan_next + FanPeriod
        /\ (pump' /\ ~pump) => pc = "pump_prepare" /\ pc' = "pump_pulse"
        /\ pc' = "pump_prepare" => pc = "wait" /\ pump_next' = pump_next + PumpPeriod
        /\ pc = "pump_prepare" => pc' \in {"pump_pulse", "wait"}
        /\ pc' = "wait" => ~fan' /\ ~pump'
      ]_vars

\* the loop waits after a pump tick whose pulse ran and whose insert failed
C19_Witness ==
    /\ pc = "wait" /\ result = "pump db error"
    /\ Len(pump_high_at) = 1
    /\ ~pump /\ ~fan

\* C20: the driver is idle whenever no driver call of the climate service is
\* under way, and no service call ever returned MeasInProgress.
C20_NeverBusy ==
    /\ result # "sensor busy"
    /\ pc \notin {"temp_settle", "rh_settle"} => ~sht.in_progress

\* a later climate cycle is measuring after every earlier cycle ended in an
\* error
C20_Witness ==
    /\ pc = "temp_settle" /\ sht.in_progress
    /\ now >= ClimatePeriod
    /\ Len(humd_after) = 0

====
